---- MODULE Spec2Model ----
(***************************************************************************)
(* A model of the check-in score ledger of laibao_counter:                 *)
(*   src/data_manager.py  (DataManager: the persisted ledger document)     *)
(*   src/app.py           (the operator workflows that call it)            *)
(*   src/excel_processor.py (ExcelProcessor: extraction from a sheet)      *)
(*                                                                         *)
(* Text (nicknames, file names, timestamps) is a sequence of one-character *)
(* strings, so that strip(), lower(), endswith() and the lexicographic     *)
(* order of str are computed, not assumed.  A JSON object is a record; a   *)
(* key that a JSON object lacks is a field the record lacks.  A dict whose *)
(* iteration order matters (the participant maps, the processed-file      *)
(* registry) is a sequence of [key, val] entries in insertion order.       *)
(* datetime.now().isoformat() is the single token Now: the values of the   *)
(* timestamp fields are not modelled.                                      *)
(*                                                                         *)
(* Ten specifications:                                                     *)
(*   Spec        the operations and queries of a session, in any order     *)
(*   SpecIngest  one call of update_scores_with_rewards, every argument    *)
(*               varying                                                   *)
(*   SpecBoard   get_leaderboard on the documents one ingest leaves        *)
(*   SpecExtract extract_nicknames_and_times_from_file on one sheet        *)
(*   SpecLoad    ingests and queries on a session file that may be         *)
(*               missing or damaged                                        *)
(*   SpecColumns find_nickname_column and find_time_column on frames of    *)
(*               varying headers and first columns                         *)
(*   SpecBook    the reading of a workbook: file name, the two header      *)
(*               rows, extraction                                          *)
(*   SpecKeys    ingests and updates with blank and padded identifiers     *)
(*   SpecRace    two processes ingesting into one session file             *)
(*   SpecSchema  a document only the DataManager wrote, under ingests,     *)
(*               updates, merges and get_all_nicknames                     *)
(***************************************************************************)
EXTENDS Integers, Sequences, FiniteSets, TLC

VARIABLES
    data_file,   \* the JSON document stored in self.data_file
    call,        \* the operation that ran last, with its arguments
    result       \* what it returned, or the exception it raised

vars == <<data_file, call, result>>

(***************************************************************************)
(* Bounds of the model.                                                    *)
(***************************************************************************)
MaxRows == 2        \* longest nicknames / times / weights list of one call
MaxWeight == 2      \* largest weight (码数) of a call
MaxContribs == 2    \* most contribution records held by one document
MaxScore == 2       \* largest score of a participant
MaxBoard == 3       \* most rows of the call that fills a leaderboard
MaxSheetRows == 2   \* most data rows of a sheet
MaxImageCols == 2   \* most numbered image columns of a sheet
MaxCols == 3        \* most columns of a DataFrame
MaxCells == 11      \* most values of the first column of a DataFrame

(***************************************************************************)
(* Text.                                                                   *)
(***************************************************************************)
Whitespace == {" "}

RECURSIVE LStrip(_)
LStrip(s) == IF s # <<>> /\ Head(s) \in Whitespace THEN LStrip(Tail(s)) ELSE s

RECURSIVE RStrip(_)
RStrip(s) ==
    IF s # <<>> /\ s[Len(s)] \in Whitespace
    THEN RStrip(SubSeq(s, 1, Len(s) - 1))
    ELSE s

\* a faulty variant of Strip: only the trailing whitespace is removed
StripTrailing(s) == RStrip(s)

\* str.strip()
Strip(s) == RStrip(LStrip(s))

\* the code point order of the characters the model uses
CharOrd(ch) ==
    CASE ch = " " -> 32
      [] ch = "0" -> 48
      [] ch = "1" -> 49
      [] ch = "2" -> 50
      [] ch = "9" -> 57
      [] ch = "a" -> 97
      [] ch = "n" -> 110
      [] OTHER -> 200

\* s <= t in the order of str
RECURSIVE StrLeq(_, _)
StrLeq(s, t) ==
    IF s = <<>> THEN TRUE
    ELSE IF t = <<>> THEN FALSE
    ELSE IF CharOrd(Head(s)) < CharOrd(Head(t)) THEN TRUE
    ELSE IF CharOrd(Head(s)) > CharOrd(Head(t)) THEN FALSE
    ELSE StrLeq(Tail(s), Tail(t))

Min(a, b) == IF a < b THEN a ELSE b

\* every sequence over S of a length in lo..hi
SeqsOf(S, lo, hi) == UNION {[1..n -> S] : n \in lo..hi}

(***************************************************************************)
(* A dict in insertion order.                                              *)
(***************************************************************************)
Has(m, k) == \E i \in 1..Len(m) : m[i].key = k
Pos(m, k) == CHOOSE i \in 1..Len(m) : m[i].key = k
Get(m, k) == m[Pos(m, k)].val
\* m[k] = v : a new key goes last, an old key keeps its place
Put(m, k, v) ==
    IF Has(m, k)
    THEN [m EXCEPT ![Pos(m, k)] = [key |-> k, val |-> v]]
    ELSE Append(m, [key |-> k, val |-> v])
\* del m[k]
Del(m, k) == SelectSeq(m, LAMBDA e : e.key # k)

\* a JSON object with key k set to v
SetKey(d, k, v) == (k :> v) @@ d

Now == "now"

(***************************************************************************)
(* DataManager: the document.                                              *)
(***************************************************************************)
\* what ensure_data_file_exists writes for a new session
EmptyDocument ==
    [records_by_nickname |-> <<>>,
     records_by_name |-> <<>>,
     processed_files |-> <<>>,
     last_updated |-> Now]

\* load_data: the stored document, with the three maps it guarantees
LoadData(f) ==
    LET d1 == IF "processed_files" \in DOMAIN f
              THEN f ELSE SetKey(f, "processed_files", <<>>)
        d2 == IF "records_by_nickname" \in DOMAIN d1
              THEN d1 ELSE SetKey(d1, "records_by_nickname", <<>>)
        d3 == IF "records_by_name" \in DOMAIN d2
              THEN d2 ELSE SetKey(d2, "records_by_name", <<>>)
    IN  d3

\* save_data: the document as written to the file
SaveData(data) == SetKey(data, "last_updated", Now)

\* the session's file as load_data finds it: a JSON object, no file, text
\* that is not JSON, or bytes that are not UTF-8 text
StoredDocument(object) == [kind |-> "json", object |-> object]
MissingFile == [kind |-> "missing"]
InvalidJsonFile == [kind |-> "invalid_json"]
UndecodableFile == [kind |-> "invalid_utf8"]

\* load_data on such a file: the except clause of line 68 names
\* FileNotFoundError and json.JSONDecodeError; the UnicodeDecodeError of
\* reading bytes that are not UTF-8 is neither
load_data(stored) ==
    IF stored.kind = "json"
    THEN [raised |-> "", data |-> LoadData(stored.object)]
    ELSE IF stored.kind \in {"missing", "invalid_json"}
    THEN [raised |-> "", data |-> EmptyDocument]
    ELSE [raised |-> "UnicodeDecodeError", data |-> EmptyDocument]

\* the operation's outcome: the file it leaves, what it returns or raises
\* A returned value carries its type: [int |-> n], [bool |-> b],
\* [list |-> s], [str |-> t]; None of Python is [str |-> "None"].
Returned(f, v) == [file |-> f, result |-> [raised |-> "", returned |-> v]]
Raised(f, e) ==
    [file |-> f, result |-> [raised |-> e, returned |-> [str |-> "-"]]]

\* the number of contribution records of a participant map
RECURSIVE CountFiles(_)
CountFiles(records) ==
    IF records = <<>> THEN 0
    ELSE Len(Head(records).val.files) + CountFiles(Tail(records))

\* every score of a participant map is within the bound
ScoresWithin(records) ==
    \A i \in 1..Len(records) :
        /\ records[i].val.score <= MaxScore
        /\ records[i].val.score >= 0 - MaxScore

\* every score of a loaded document is within the bound
ScoresBounded(d) ==
    /\ ScoresWithin(d.records_by_nickname)
    /\ ScoresWithin(d.records_by_name)
    /\ "records" \in DOMAIN d => ScoresWithin(d.records)

\* the number of contribution records a loaded document holds
Contributions(d) ==
    CountFiles(d.records_by_nickname) + CountFiles(d.records_by_name)
    + (IF "records" \in DOMAIN d THEN CountFiles(d.records) ELSE 0)

(***************************************************************************)
(* update_scores_with_rewards                                              *)
(***************************************************************************)
\* isinstance(weight, int): a weight argument is [int |-> n] or [list |-> s]
IsInt(weight) == "int" \in DOMAIN weight

\* lines 128-131: one weight per row
NormalizeWeights(nicknames, weight) ==
    IF IsInt(weight)
    THEN [i \in 1..Len(nicknames) |-> weight.int]
    ELSE weight.list

\* a faulty variant of WeightsMismatch: only a list that is too short is
\* refused
WeightsMismatchShort(nicknames, weight) ==
    ~IsInt(weight) /\ Len(weight.list) < Len(nicknames)

\* lines 128-133: a per-row weight list of another length than nicknames
WeightsMismatch(nicknames, weight) ==
    ~IsInt(weight) /\ Len(weight.list) # Len(nicknames)

\* line 142: the timestamps that take part in the ranking
IsRankedTime(t) == t # <<>> /\ Strip(t) # <<>> /\ t # <<"n", "a", "n">>

\* lines 141-142: zip(nicknames, times), filtered
TimePairs(nicknames, times) ==
    SelectSeq([i \in 1..Min(Len(nicknames), Len(times)) |->
                  <<nicknames[i], times[i]>>],
              LAMBDA p : IsRankedTime(p[2]))

\* one step of list.sort: p goes after every pair that is not later than it
InsertByTime(sorted, p) ==
    LET n == Cardinality({i \in 1..Len(sorted) : StrLeq(sorted[i][2], p[2])})
    IN  SubSeq(sorted, 1, n) \o <<p>> \o SubSeq(sorted, n + 1, Len(sorted))

\* line 146: time_pairs.sort(key=lambda x: str(x[1])), a stable sort
RECURSIVE SortByTime(_)
SortByTime(pairs) ==
    IF pairs = <<>> THEN <<>>
    ELSE InsertByTime(SortByTime(SubSeq(pairs, 1, Len(pairs) - 1)),
                      pairs[Len(pairs)])

\* lines 139-149: reward_users
RewardUsers(nicknames, times, reward_count) ==
    IF /\ reward_count > 0
       /\ times # <<>>
       /\ \E i \in 1..Len(times) : times[i] # <<>>
    THEN LET sorted == SortByTime(TimePairs(nicknames, times))
         IN  {sorted[i][1] : i \in 1..Min(reward_count, Len(sorted))}
    ELSE {}

\* lines 168-175 and 179-186: the contribution record of one row
Contribution(file_name, user_weight, base_score, user_points, is_rewarded) ==
    [file_name |-> file_name,
     date |-> Now,
     weight |-> user_weight,
     base_score |-> base_score,
     points |-> user_points,
     is_rewarded |-> is_rewarded]

\* a faulty variant of AddPoints: the new contribution record goes before
\* the history
AddPointsPrepending(records, nickname, user_points, contribution) ==
    IF Has(records, nickname)
    THEN LET old == Get(records, nickname)
         IN  Put(records, nickname,
                 [old EXCEPT !.score = @ + user_points,
                             !.files = <<contribution>> \o @])
    ELSE Put(records, nickname,
             [score |-> user_points, files |-> <<contribution>>])

\* lines 166-187: add one row's points to the participant map
AddPoints(records, nickname, user_points, contribution) ==
    IF Has(records, nickname)
    THEN LET old == Get(records, nickname)
         IN  Put(records, nickname,
                 [old EXCEPT !.score = @ + user_points,
                             !.files = Append(@, contribution)])
    ELSE Put(records, nickname,
             [score |-> user_points, files |-> <<contribution>>])

\* lines 152-187: the loop over the rows, from row idx on
RECURSIVE ScoreRows(_, _, _, _, _)
ScoreRows(records, c, weights, reward_users, idx) ==
    IF idx > Len(c.nicknames) THEN records
    ELSE IF Strip(c.nicknames[idx]) = <<>>
    THEN ScoreRows(records, c, weights, reward_users, idx + 1)
    ELSE LET nickname == Strip(c.nicknames[idx])
             user_weight == weights[idx]
             user_basic_points == c.base_score * user_weight
             is_rewarded == nickname \in reward_users
             user_points == IF is_rewarded
                            THEN c.reward_multiplier * user_basic_points
                            ELSE user_basic_points
         IN  ScoreRows(AddPoints(records, nickname, user_points,
                                 Contribution(c.file_name, user_weight,
                                              c.base_score, user_points,
                                              is_rewarded)),
                       c, weights, reward_users, idx + 1)

\* a faulty variant of RegisterFile: only the first file of a ledger is
\* registered
RegisterFileFirstOnly(processed_files, file_name) ==
    IF file_name # <<>> /\ processed_files = <<>>
    THEN Put(processed_files, file_name, [processed_date |-> Now])
    ELSE processed_files

\* lines 196-201: the registry entry of the file
RegisterFile(processed_files, file_name) ==
    IF file_name # <<>> /\ ~Has(processed_files, file_name)
    THEN Put(processed_files, file_name, [processed_date |-> Now])
    ELSE processed_files

\* which map the call scores into (lines 122-125, 190-193)
RecordsKey(group_by) ==
    IF group_by = "name" THEN "records_by_name" ELSE "records_by_nickname"

\* update_scores_with_rewards on the stored document f
update_scores_with_rewards(f, c) ==
    LET data == LoadData(f)
        weights == NormalizeWeights(c.nicknames, c.weight)
    IN  IF WeightsMismatch(c.nicknames, c.weight)
        THEN Raised(f, "ValueError")
        ELSE LET reward_users ==
                     RewardUsers(c.nicknames, c.times, c.reward_count)
                 key == RecordsKey(c.group_by)
                 records == ScoreRows(data[key], c, weights, reward_users, 1)
                 scored == [data EXCEPT ![key] = records]
                 done == [scored EXCEPT !.processed_files =
                              RegisterFile(@, c.file_name)]
             IN  Returned(SaveData(done), [int |-> Cardinality(reward_users)])

(***************************************************************************)
(* update_existing_file_scores                                             *)
(***************************************************************************)
\* lines 230-232: the weight the registry holds for the file, 1 if none
OldWeight(processed_files, file_name) ==
    IF Has(processed_files, file_name)
    THEN LET info == Get(processed_files, file_name)
         IN  IF "weight" \in DOMAIN info THEN info.weight ELSE 1
    ELSE 1

\* lines 238-243: the registry entry the update writes
UpdatedFileInfo(nicknames, new_weight) ==
    [processed_date |-> Now,
     nicknames_count |-> Len(nicknames),
     weight |-> new_weight,
     total_points |-> Len(nicknames) * new_weight]

\* lines 262-267 and 272-277: the contribution record the update appends
UpdateContribution(file_name, new_weight) ==
    [file_name |-> file_name,
     date |-> Now,
     weight |-> new_weight,
     points |-> new_weight]

\* lines 254-267: rewrite the first record of the file, or append one
RewriteFileRecord(files, file_name, new_weight) ==
    IF \E i \in 1..Len(files) : files[i].file_name = file_name
    THEN LET i == CHOOSE j \in 1..Len(files) :
                      /\ files[j].file_name = file_name
                      /\ \A k \in 1..(j - 1) : files[k].file_name # file_name
         IN  [files EXCEPT ![i] = [@ EXCEPT !.weight = new_weight,
                                            !.points = new_weight,
                                            !.date = Now]]
    ELSE Append(files, UpdateContribution(file_name, new_weight))

\* lines 249-278: one named participant
UpdateParticipant(records, nickname, file_name, new_weight, weight_diff) ==
    IF Has(records, nickname)
    THEN LET old == Get(records, nickname)
         IN  Put(records, nickname,
                 [old EXCEPT !.score = @ + weight_diff,
                             !.files = RewriteFileRecord(@, file_name,
                                                         new_weight)])
    ELSE Put(records, nickname,
             [score |-> new_weight,
              files |-> <<UpdateContribution(file_name, new_weight)>>])

\* lines 246-278: the loop over the nicknames
RECURSIVE UpdateRows(_, _, _, _, _)
UpdateRows(records, nicknames, file_name, new_weight, weight_diff) ==
    IF nicknames = <<>> THEN records
    ELSE IF Strip(Head(nicknames)) = <<>>
    THEN UpdateRows(records, Tail(nicknames), file_name, new_weight,
                    weight_diff)
    ELSE UpdateRows(UpdateParticipant(records, Strip(Head(nicknames)),
                                      file_name, new_weight, weight_diff),
                    Tail(nicknames), file_name, new_weight, weight_diff)

\* update_existing_file_scores on the stored document f.  The loop reads
\* data["records"], a key load_data does not supply: the first non-blank
\* nickname raises KeyError when the document has no such key.
update_existing_file_scores(f, c) ==
    LET data == LoadData(f)
        weight_diff == c.new_weight - OldWeight(data.processed_files,
                                                c.file_name)
        filed == [data EXCEPT !.processed_files =
                      Put(@, c.file_name,
                          UpdatedFileInfo(c.nicknames, c.new_weight))]
    IN  IF \A i \in 1..Len(c.nicknames) : Strip(c.nicknames[i]) = <<>>
        THEN Returned(SaveData(filed), [str |-> "None"])
        ELSE IF "records" \notin DOMAIN data
        THEN Raised(f, "KeyError")
        ELSE Returned(
                 SaveData([filed EXCEPT !.records =
                              UpdateRows(@, c.nicknames, c.file_name,
                                         c.new_weight, weight_diff)]),
                 [str |-> "None"])

(***************************************************************************)
(* merge_nicknames                                                         *)
(***************************************************************************)
\* lines 583-599: fold the sources into the target
RECURSIVE MergeSources(_, _, _)
MergeSources(records, sources, target) ==
    IF sources = <<>> THEN records
    ELSE IF Head(sources) = target \/ ~Has(records, Head(sources))
    THEN MergeSources(records, Tail(sources), target)
    ELSE LET source_data == Get(records, Head(sources))
             into == Get(records, target)
             merged == Put(records, target,
                           [into EXCEPT !.score = @ + source_data.score,
                                        !.files = @ \o source_data.files])
         IN  MergeSources(Del(merged, Head(sources)), Tail(sources), target)

\* merge_nicknames on the stored document f.  Every access is to
\* data["records"]: KeyError when the document has no such key.
merge_nicknames(f, c) ==
    IF c.source_nicknames = <<>> \/ c.target_nickname = <<>>
    THEN Returned(f, [bool |-> FALSE])
    ELSE LET data == LoadData(f) IN
         IF "records" \notin DOMAIN data
         THEN Raised(f, "KeyError")
         ELSE IF Has(data.records, c.target_nickname)
         THEN Returned(
                  SaveData([data EXCEPT !.records =
                               MergeSources(@, c.source_nicknames,
                                            c.target_nickname)]),
                  [bool |-> TRUE])
         ELSE IF \E i \in 1..Len(c.source_nicknames) :
                     c.source_nicknames[i] = c.target_nickname
         THEN Returned(
                  SaveData([data EXCEPT !.records =
                               MergeSources(
                                   Put(@, c.target_nickname,
                                       [score |-> 0, files |-> <<>>]),
                                   c.source_nicknames, c.target_nickname)]),
                  [bool |-> TRUE])
         ELSE Returned(f, [bool |-> FALSE])

(***************************************************************************)
(* export_user_data, import_data                                           *)
(***************************************************************************)
SessionId == "session"

\* a file of JSON text: the object it encodes, or text that is not JSON
JsonFile(object) == [is_json |-> TRUE, object |-> object]
NotJsonFile == [is_json |-> FALSE, object |-> [x \in {} |-> 0]]

\* export_user_data: the loaded document plus exported_at and session_id
export_user_data(f) ==
    JsonFile(SetKey(SetKey(LoadData(f), "exported_at", Now),
                    "session_id", SessionId))

\* line 459
ImportRequiredFields ==
    {"records", "processed_files", "last_updated", "total_files_processed"}

\* a faulty variant of import_data: the document is overwritten before the
\* required fields are checked
import_data_saving_first(f, c) ==
    IF ~c.import_file.is_json
    THEN Returned(f, [bool |-> FALSE])
    ELSE IF ~(ImportRequiredFields \subseteq DOMAIN c.import_file.object)
    THEN Returned(SaveData(c.import_file.object), [bool |-> FALSE])
    ELSE Returned(SaveData(c.import_file.object), [bool |-> TRUE])

\* import_data on the stored document f, given the file to import
import_data(f, c) ==
    IF ~c.import_file.is_json
    THEN Returned(f, [bool |-> FALSE])
    ELSE IF ~(ImportRequiredFields \subseteq DOMAIN c.import_file.object)
    THEN Returned(f, [bool |-> FALSE])
    ELSE Returned(SaveData(c.import_file.object), [bool |-> TRUE])

(***************************************************************************)
(* Queries                                                                 *)
(***************************************************************************)
\* is_file_processed
is_file_processed(f, file_name) == Has(LoadData(f).processed_files, file_name)

\* lines 524-535: the entry get_processed_files builds for one file
ProcessedFileEntry(file_name, info) ==
    [file_name |-> file_name,
     processed_date |-> info.processed_date,
     nicknames_count |-> info.nicknames_count,
     weight |-> IF "weight" \in DOMAIN info THEN info.weight ELSE 1,
     base_score |-> IF "base_score" \in DOMAIN info
                    THEN info.base_score ELSE 1,
     total_points |-> IF "total_points" \in DOMAIN info
                      THEN info.total_points ELSE info.nicknames_count,
     reward_count |-> IF "reward_count" \in DOMAIN info
                      THEN info.reward_count ELSE 0,
     reward_multiplier |-> IF "reward_multiplier" \in DOMAIN info
                           THEN info.reward_multiplier ELSE 1,
     rewarded_users |-> IF "rewarded_users" \in DOMAIN info
                        THEN info.rewarded_users ELSE <<>>]

\* get_processed_files raises KeyError at info["nicknames_count"] when an
\* entry of the registry lacks that key
GetProcessedFilesRaises(f) ==
    LET processed_files == LoadData(f).processed_files
    IN  \E i \in 1..Len(processed_files) :
            "nicknames_count" \notin DOMAIN processed_files[i].val

\* get_processed_files, when it returns.  Every processed_date is Now, so
\* the stable sort of line 538 leaves the registry's order.
get_processed_files(f) ==
    LET processed_files == LoadData(f).processed_files
    IN  [i \in 1..Len(processed_files) |->
            ProcessedFileEntry(processed_files[i].key, processed_files[i].val)]

\* a faulty variant of LeaderboardEntry: participation_count is the number
\* of contribution records
LeaderboardEntryByRecords(e) ==
    [nickname |-> e.key,
     score |-> e.val.score,
     participation_count |-> Len(e.val.files)]

\* lines 301-308: one leaderboard entry
LeaderboardEntry(e) ==
    [nickname |-> e.key,
     score |-> e.val.score,
     participation_count |->
         Cardinality({e.val.files[i].file_name : i \in 1..Len(e.val.files)})]

\* a faulty variant of InsertByScore: x goes before the entries of its own
\* score, as a sort that is not stable may place it
InsertByScoreUnstable(sorted, x) ==
    LET n == Cardinality({i \in 1..Len(sorted) : sorted[i].score > x.score})
    IN  SubSeq(sorted, 1, n) \o <<x>> \o SubSeq(sorted, n + 1, Len(sorted))

\* one step of list.sort(reverse=True): x goes after every entry whose
\* score is not lower than its own
InsertByScore(sorted, x) ==
    LET n == Cardinality({i \in 1..Len(sorted) : sorted[i].score >= x.score})
    IN  SubSeq(sorted, 1, n) \o <<x>> \o SubSeq(sorted, n + 1, Len(sorted))

\* line 311: leaderboard.sort(key=score, reverse=True), a stable sort
RECURSIVE SortByScore(_)
SortByScore(entries) ==
    IF entries = <<>> THEN <<>>
    ELSE InsertByScore(SortByScore(SubSeq(entries, 1, Len(entries) - 1)),
                       entries[Len(entries)])

\* get_leaderboard
get_leaderboard(f, group_by) ==
    LET records == LoadData(f)[RecordsKey(group_by)]
    IN  SortByScore([i \in 1..Len(records) |-> LeaderboardEntry(records[i])])

\* line 338: sum(info["score"] for info in records.values()), 0 when the
\* map is empty
RECURSIVE TotalCheckins(_, _)
TotalCheckins(records, n) ==
    IF n = 0 THEN 0
    ELSE TotalCheckins(records, n - 1) + records[n].val.score

\* a faulty variant of get_statistics: total_checkins is the number of
\* contribution records, whatever their points
get_statistics_counting_records(f, group_by) ==
    LET data == LoadData(f)
        records == data[RecordsKey(group_by)]
    IN  [total_participants |-> Len(records),
         total_files_processed |-> Len(data.processed_files),
         last_updated |-> IF "last_updated" \in DOMAIN data
                          THEN data.last_updated ELSE "",
         total_checkins |-> CountFiles(records)]

\* nicknames.sort(): the texts of the set in ascending order
RECURSIVE Sorted(_)
Sorted(texts) ==
    IF texts = {} THEN <<>>
    ELSE LET least == CHOOSE t \in texts : \A u \in texts : StrLeq(t, u)
         IN  <<least>> \o Sorted(texts \ {least})

\* get_all_nicknames: the keys of data["records"], KeyError when the
\* document has no such map
get_all_nicknames(f) ==
    LET data == LoadData(f)
    IN  IF "records" \notin DOMAIN data
        THEN Raised(f, "KeyError")
        ELSE Returned(f, [list |-> Sorted({data.records[i].key :
                                              i \in 1..Len(data.records)})])

\* get_statistics (lines 323-339)
get_statistics(f, group_by) ==
    LET data == LoadData(f)
        records == data[RecordsKey(group_by)]
    IN  [total_participants |-> Len(records),
         total_files_processed |-> Len(data.processed_files),
         last_updated |-> IF "last_updated" \in DOMAIN data
                          THEN data.last_updated ELSE "",
         total_checkins |-> TotalCheckins(records, Len(records))]

(***************************************************************************)
(* app.py: the operator's workflows                                        *)
(***************************************************************************)
\* str.lower() on the characters the model uses
LowerChar(ch) ==
    CASE ch = "X" -> "x"
      [] ch = "L" -> "l"
      [] ch = "S" -> "s"
      [] OTHER -> ch
Lower(s) == [i \in 1..Len(s) |-> LowerChar(s[i])]

\* str.endswith
EndsWith(s, suffix) ==
    /\ Len(s) >= Len(suffix)
    /\ SubSeq(s, Len(s) - Len(suffix) + 1, Len(s)) = suffix

DotXlsx == <<".", "x", "l", "s", "x">>
DotXls == <<".", "x", "l", "s">>

\* ExcelProcessor.validate_file_format
validate_file_format(file_name) ==
    \E ext \in {DotXlsx, DotXls} : EndsWith(Lower(file_name), ext)

\* lines 162-166: the weight the registry view gives for the file
HistoricalWeight(processed, file_name) ==
    IF \E i \in 1..Len(processed) : processed[i].file_name = file_name
    THEN processed[CHOOSE i \in 1..Len(processed) :
                       processed[i].file_name = file_name].weight
    ELSE 1

\* lines 156-190: what happens to one uploaded file.  Line 184 unpacks the
\* four values extract_nicknames_and_times_from_file returns into three
\* names, so every file that reaches it raises ValueError.
FileOutcome(f, file_name, current_weight) ==
    IF is_file_processed(f, file_name) /\ GetProcessedFilesRaises(f)
    THEN "KeyError"
    ELSE IF /\ is_file_processed(f, file_name)
            /\ current_weight = HistoricalWeight(get_processed_files(f),
                                                 file_name)
    THEN "skipped"
    ELSE IF ~validate_file_format(file_name)
    THEN "unsupported"
    ELSE "ValueError"

\* lines 151-240: the loop over the uploaded files; an exception ends it
RECURSIVE FileOutcomes(_, _, _)
FileOutcomes(f, uploaded_files, file_weights) ==
    IF uploaded_files = <<>> THEN <<>>
    ELSE LET o == FileOutcome(f, Head(uploaded_files),
                              file_weights[Head(uploaded_files)])
         IN  IF o \in {"KeyError", "ValueError"}
             THEN <<o>>
             ELSE <<o>> \o FileOutcomes(f, Tail(uploaded_files), file_weights)

\* process_uploaded_files on the stored document f: no path of it that
\* completes writes the document
process_uploaded_files(f, c) ==
    LET outcomes == FileOutcomes(f, c.uploaded_files, c.file_weights)
        last == IF outcomes = <<>> THEN "" ELSE outcomes[Len(outcomes)]
    IN  [file |-> f,
         result |-> [raised |-> IF last \in {"KeyError", "ValueError"}
                                THEN last ELSE "",
                     returned |-> [list |-> outcomes]]]

\* lines 512-517: the document the wipe writes
\* backup_data (data_manager.py, lines 349-353): what the backup file holds
backup_data(f) == LoadData(f)

WipedDocument ==
    [records |-> <<>>,
     processed_files |-> <<>>,
     last_updated |-> Now,
     total_files_processed |-> 0]

\* lines 501-528: the operator confirms the wipe.  It acts only when the
\* file data/records.json exists, which is not the session's document.
clear_all_data(f, c) ==
    IF c.legacy_file_exists
    THEN Returned(SaveData(WipedDocument), [backup |-> backup_data(f)])
    ELSE Returned(f, [str |-> "nothing to clear"])

(***************************************************************************)
(* excel_processor.py: extraction.  A sheet is                             *)
(*   workbook_opens   whether openpyxl's load_workbook reads the content   *)
(*   nickname_header  "keyword": a header holds a nickname keyword;        *)
(*                    "first_column": none does, the first column is text; *)
(*                    "none": no nickname column under either header row   *)
(*   time_column      whether a header holds a time keyword                *)
(*   image_cols       the number of numbered image columns                 *)
(*   rows             per data row: the nickname cell, the time cell, the  *)
(*                    image columns whose cell carries a hyperlink         *)
(***************************************************************************)
WordChars == {"a", "b"}

\* The Chinese characters of the keywords and headers are written as one
\* upper-case letter each: N C (nickname), X M (name), T J (submit),
\* S I (time), D K (punch), P Y (take part), U H (upload), R Q (date),
\* B O (number).
NICKNAME_KEYWORDS == << <<"N", "C">>, <<"X", "M">> >>

TIME_KEYWORDS ==
    << <<"T", "J", "S", "I">>, <<"S", "I">>, <<"D", "K", "S", "I">>,
       <<"P", "Y", "S", "I">>, <<"U", "H", "S", "I">>,
       <<"t", "i", "m", "e">>,
       <<"s", "u", "b", "m", "i", "t", "_", "t", "i", "m", "e">>,
       <<"t", "i", "m", "e", "s", "t", "a", "m", "p">>,
       <<"R", "Q", "S", "I">> >>

\* keyword in str(col)
Contains(s, keyword) ==
    \E i \in 0..(Len(s) - Len(keyword)) :
        SubSeq(s, i + 1, i + Len(keyword)) = keyword

\* the columns the keyword matches: keyword == str(col).strip() when
\* exact, keyword in str(col) otherwise
Matching(columns, keyword, exact) ==
    {i \in 1..Len(columns) :
        IF exact THEN Strip(columns[i]) = keyword
        ELSE Contains(columns[i], keyword)}

\* for keyword in keywords: for col in columns: the first match, 0 if none
RECURSIVE FirstMatch(_, _, _)
FirstMatch(keywords, columns, exact) ==
    IF keywords = <<>> THEN 0
    ELSE LET found == Matching(columns, Head(keywords), exact)
         IN  IF found # {}
             THEN CHOOSE i \in found : \A j \in found : i <= j
             ELSE FirstMatch(Tail(keywords), columns, exact)

\* lines 41-50 and 77-86: the exact pass, then the substring pass
KeywordColumn(keywords, columns) ==
    IF FirstMatch(keywords, columns, TRUE) # 0
    THEN FirstMatch(keywords, columns, TRUE)
    ELSE FirstMatch(keywords, columns, FALSE)

\* line 56: df[first_col].dropna().head(10).  A value of the first column
\* is "text" (a str that is not blank), "blank" (a str of whitespace),
\* "number" or "nan" (an empty cell).
SampleData(values) ==
    LET present == SelectSeq(values, LAMBDA v : v # "nan")
    IN  SubSeq(present, 1, Min(10, Len(present)))

\* lines 57-60: text_count / len(sample_data) > 0.7
MostlyText(sample_data) ==
    LET text_count == Cardinality({i \in 1..Len(sample_data) :
                                      sample_data[i] = "text"})
    IN  /\ Len(sample_data) > 0
        /\ 10 * text_count > 7 * Len(sample_data)

\* the column label a finder returns, or None
Label(columns, i) ==
    IF i = 0 THEN [str |-> "None"] ELSE [text |-> columns[i]]

\* a faulty variant of find_nickname_column: the substring pass runs before
\* the exact pass
find_nickname_column_fuzzy_first(df) ==
    IF FirstMatch(NICKNAME_KEYWORDS, df.columns, FALSE) # 0
    THEN Label(df.columns, FirstMatch(NICKNAME_KEYWORDS, df.columns, FALSE))
    ELSE IF MostlyText(SampleData(df.first_column))
    THEN Label(df.columns, 1)
    ELSE Label(df.columns, 0)

\* find_nickname_column on a DataFrame: its column labels and the values of
\* its first column
find_nickname_column(df) ==
    IF KeywordColumn(NICKNAME_KEYWORDS, df.columns) # 0
    THEN Label(df.columns, KeywordColumn(NICKNAME_KEYWORDS, df.columns))
    ELSE IF Len(df.columns) > 0 /\ MostlyText(SampleData(df.first_column))
    THEN Label(df.columns, 1)
    ELSE Label(df.columns, 0)

\* find_time_column
find_time_column(df) ==
    Label(df.columns, KeywordColumn(TIME_KEYWORDS, df.columns))

\* line 110: re.sub(r'\s+', ' ', s)
RECURSIVE CollapseSpaces(_)
CollapseSpaces(s) ==
    IF Len(s) < 2 THEN s
    ELSE IF s[1] \in Whitespace /\ s[2] \in Whitespace
    THEN CollapseSpaces(Tail(s))
    ELSE <<s[1]>> \o CollapseSpaces(Tail(s))

\* clean_nickname (lines 90-112)
clean_nickname(nickname) ==
    Strip(CollapseSpaces(
        SelectSeq(Strip(nickname),
                  LAMBDA ch : ch \in WordChars \cup Whitespace)))

\* lines 188-211: the rows from idx on, folded into nickname_image_count
RECURSIVE CountRows(_, _, _)
CountRows(sheet, nickname_image_count, idx) ==
    IF idx > Len(sheet.rows) THEN nickname_image_count
    ELSE LET row == sheet.rows[idx]
             nickname == clean_nickname(row.nickname)
             image_count == Cardinality(row.hyperlinks \cap 1..sheet.image_cols)
         IN  IF row.nickname = <<>> \/ nickname = <<>>
             THEN CountRows(sheet, nickname_image_count, idx + 1)
             ELSE IF Has(nickname_image_count, nickname)
             THEN CountRows(sheet,
                            Put(nickname_image_count, nickname,
                                IF Get(nickname_image_count, nickname)
                                       > image_count
                                THEN Get(nickname_image_count, nickname)
                                ELSE image_count),
                            idx + 1)
             ELSE CountRows(sheet,
                            Put(nickname_image_count, nickname, image_count),
                            idx + 1)

\* count_images_in_excel: {} when the workbook does not open (line 229) or
\* no header holds a nickname keyword (line 168)
count_images_in_excel(sheet) ==
    IF ~sheet.workbook_opens \/ sheet.nickname_header # "keyword"
    THEN <<>>
    ELSE CountRows(sheet, <<>>, 1)

\* a faulty variant of CleanRows: a row whose cleaned nickname is empty is
\* kept
RECURSIVE CleanRowsKeepingEmpty(_, _, _, _)
CleanRowsKeepingEmpty(sheet, nickname_image_count, out, idx) ==
    IF idx > Len(sheet.rows) THEN out
    ELSE LET row == sheet.rows[idx]
             clean_name == clean_nickname(row.nickname)
         IN  IF \A i \in 1..Len(out.nicknames) : out.nicknames[i] # clean_name
             THEN CleanRowsKeepingEmpty(
                      sheet, nickname_image_count,
                      [out EXCEPT
                          !.nicknames = Append(@, clean_name),
                          !.times = Append(@, IF sheet.time_column
                                              THEN row.time ELSE <<>>),
                          !.image_counts = Append(@, 1)],
                      idx + 1)
             ELSE CleanRowsKeepingEmpty(sheet, nickname_image_count, out,
                                        idx + 1)

\* a faulty variant of CleanRows: a later row of a nickname replaces the
\* time of its first row
RECURSIVE CleanRowsLastTime(_, _, _, _)
CleanRowsLastTime(sheet, nickname_image_count, out, idx) ==
    IF idx > Len(sheet.rows) THEN out
    ELSE LET row == sheet.rows[idx]
             clean_name == clean_nickname(row.nickname)
             time == IF sheet.time_column THEN row.time ELSE <<>>
         IN  IF clean_name = <<>>
             THEN CleanRowsLastTime(sheet, nickname_image_count, out, idx + 1)
             ELSE IF \E i \in 1..Len(out.nicknames) :
                         out.nicknames[i] = clean_name
             THEN CleanRowsLastTime(
                      sheet, nickname_image_count,
                      [out EXCEPT !.times =
                          [i \in 1..Len(@) |->
                              IF out.nicknames[i] = clean_name
                              THEN time ELSE @[i]]],
                      idx + 1)
             ELSE CleanRowsLastTime(
                      sheet, nickname_image_count,
                      [out EXCEPT
                          !.nicknames = Append(@, clean_name),
                          !.times = Append(@, time),
                          !.image_counts = Append(@, 1)],
                      idx + 1)

\* lines 300-314: the rows from idx on, cleaned, first occurrence kept
RECURSIVE CleanRows(_, _, _, _)
CleanRows(sheet, nickname_image_count, out, idx) ==
    IF idx > Len(sheet.rows) THEN out
    ELSE LET row == sheet.rows[idx]
             clean_name == clean_nickname(row.nickname)
         IN  IF clean_name # <<>>
                /\ \A i \in 1..Len(out.nicknames) :
                       out.nicknames[i] # clean_name
             THEN CleanRows(
                      sheet, nickname_image_count,
                      [out EXCEPT
                          !.nicknames = Append(@, clean_name),
                          !.times = Append(@, IF sheet.time_column
                                              THEN row.time ELSE <<>>),
                          !.image_counts =
                              Append(@, IF Has(nickname_image_count, clean_name)
                                        THEN Get(nickname_image_count,
                                                 clean_name)
                                        ELSE 1)],
                      idx + 1)
             ELSE CleanRows(sheet, nickname_image_count, out, idx + 1)

\* extract_nicknames_and_times_from_file on a sheet of a supported format
\* that is not empty
extract_nicknames_and_times_from_file(sheet) ==
    IF sheet.nickname_header = "none"
    THEN [nicknames |-> <<>>, times |-> <<>>, image_counts |-> <<>>,
          error |-> "no nickname column"]
    ELSE CleanRows(sheet, count_images_in_excel(sheet),
                   [nicknames |-> <<>>, times |-> <<>>, image_counts |-> <<>>,
                    error |-> ""],
                   1)

\* What pd.read_excel gives for one header row is a frame: kind "frame"
\* (a DataFrame with rows), "empty" (df.empty) or "raises"; its labels are
\* [str |-> text] or [int |-> n], a header cell that holds a number.
\* str(col)
Str(label) ==
    IF "str" \in DOMAIN label THEN label.str
    ELSE IF label.int = 1 THEN <<"1">> ELSE <<"2">>

\* the DataFrame the column finders see
AsDataFrame(frame) ==
    [columns |-> [i \in 1..Len(frame.labels) |-> Str(frame.labels[i])],
     first_column |-> frame.first_column]

\* the failure of the extraction, with the labels its message lists
ExtractionError(error, labels) ==
    [nicknames |-> <<>>, times |-> <<>>, image_counts |-> <<>>,
     error |-> error, available_columns |-> labels]

\* lines 262-283: the frame and header row the nickname column is looked
\* for in; row 2 is read only when row 1 gives no nickname column
Located(book) ==
    IF find_nickname_column(AsDataFrame(book.header0)) # [str |-> "None"]
    THEN [header_row |-> 0, df |-> book.header0, found |-> TRUE]
    ELSE IF book.header1.kind = "raises"
    THEN [header_row |-> 1, df |-> book.header0, found |-> FALSE]
    ELSE IF book.header1.kind = "empty"
    THEN [header_row |-> 1, df |-> book.header1, found |-> FALSE]
    ELSE [header_row |-> 1, df |-> book.header1,
          found |-> find_nickname_column(AsDataFrame(book.header1))
                        # [str |-> "None"]]

\* extract_nicknames_and_times_from_file from the reading of the file on:
\* the book is the file name, the frames of header rows 1 and 2 and the
\* sheet below the header
ReadAndExtract(book) ==
    IF ~EndsWith(book.file_name, DotXlsx) /\ ~EndsWith(book.file_name, DotXls)
    THEN ExtractionError("unsupported format", <<>>)
    ELSE IF book.header0.kind = "raises"
    THEN ExtractionError("exception", <<>>)
    ELSE IF book.header0.kind = "empty"
    THEN ExtractionError("empty file", <<>>)
    ELSE LET at == Located(book) IN
         IF ~at.found
         THEN IF \E i \in 1..Len(at.df.labels) :
                     "str" \notin DOMAIN at.df.labels[i]
              THEN ExtractionError("exception", <<>>)
              ELSE ExtractionError("no nickname column",
                                   AsDataFrame(at.df).columns)
         ELSE LET keyword == KeywordColumn(NICKNAME_KEYWORDS,
                                           AsDataFrame(at.df).columns) # 0
                  out == extract_nicknames_and_times_from_file(
                             [book.sheet EXCEPT !.nickname_header =
                                 IF keyword THEN "keyword"
                                 ELSE "first_column"])
              IN  [nicknames |-> out.nicknames, times |-> out.times,
                   image_counts |-> out.image_counts, error |-> out.error,
                   available_columns |-> <<>>]

(***************************************************************************)
(* The arguments the model calls the operations with.                      *)
(***************************************************************************)
Nicknames == {<<"a">>, <<"b">>, <<" ", "a">>, <<" ">>}
Times == {<<>>, <<"1">>, <<"2">>}
FileF == <<"f">> \o DotXlsx
FileG == <<"g">> \o DotXls
Weights == 1..MaxWeight

\* the calls of update_scores_with_rewards of SpecIngest: all arguments
\* vary
IngestCalls ==
    [op : {"update_scores_with_rewards"},
     nicknames : SeqsOf(Nicknames, 0, MaxRows),
     times : SeqsOf(Times, 0, MaxRows),
     file_name : {<<>>, FileF},
     weight : {[int |-> w] : w \in Weights}
              \cup {[list |-> s] : s \in SeqsOf({1, MaxWeight}, 0, MaxRows)},
     base_score : {2},
     reward_count : {0, 1, 2},
     reward_multiplier : {3},
     group_by : {"nickname", "name"}]

\* the calls of update_scores_with_rewards the model makes on any document:
\* as the application makes them (one weight per file, the default
\* group_by and reward settings of app.py lines 199-201)
LedgerIngestCalls ==
    [op : {"update_scores_with_rewards"},
     nicknames : SeqsOf({<<"a">>, <<"b">>}, 1, 2),
     times : {<<>>},
     file_name : {FileF, FileG},
     weight : {[int |-> 1], [int |-> 2]},
     base_score : {1},
     reward_count : {0},
     reward_multiplier : {2},
     group_by : {"nickname"}]

UpdateCalls ==
    [op : {"update_existing_file_scores"},
     nicknames : {<<<<"a">>>>, <<<<" ", "a">>>>, <<<<" ">>>>},
     file_name : {FileF},
     new_weight : {1, 2}]

MergeCalls ==
    [op : {"merge_nicknames"},
     source_nicknames : {<<>>, <<<<"a">>>>, <<<<"b">>>>, <<<<"a">>, <<"b">>>>},
     target_nickname : {<<>>, <<"a">>, <<"b">>}]

\* the files the operator may pick for an import: the export of the
\* current document, a document as the wipe writes it, text that is not JSON
ImportCalls(f) ==
    [op : {"import_data"},
     import_file : {export_user_data(f), JsonFile(WipedDocument), NotJsonFile}]

ClearCalls == [op : {"clear_all_data"}, legacy_file_exists : BOOLEAN]

\* the file names the operator asks is_file_processed about
QueryNames == {<<>>, FileF, FileG}

UploadNames == {FileF, FileG, <<"h">> \o <<".", "X", "L", "S", "X">>}
UploadCalls ==
    [op : {"process_uploaded_files"},
     uploaded_files : {s \in SeqsOf(UploadNames, 1, 2) :
                          Len(s) = 2 => s[1] # s[2]},
     file_weights : {[n \in UploadNames |-> w] : w \in {1, 2}}]

(***************************************************************************)
(* The state machine.                                                      *)
(***************************************************************************)
\* no operation is running: the application waits for the operator
Idle == [op |-> "idle"]
NoResult == [raised |-> "", returned |-> [str |-> "-"]]

Init ==
    /\ data_file = SaveData(EmptyDocument)
    /\ call = Idle
    /\ result = NoResult

\* an operation runs to completion (section 5 of the design: one
\* interaction at a time); its outcome becomes the next state
Finish(c, out) ==
    /\ Contributions(LoadData(out.file)) <= MaxContribs
    /\ ScoresBounded(LoadData(out.file))
    /\ data_file' = out.file
    /\ call' = c
    /\ result' = out.result

UpdateScoresWithRewards ==
    /\ call = Idle
    /\ \E c \in LedgerIngestCalls :
           Finish(c, update_scores_with_rewards(data_file, c))

UpdateExistingFileScores ==
    /\ call = Idle
    /\ \E c \in UpdateCalls :
           Finish(c, update_existing_file_scores(data_file, c))

MergeNicknames ==
    /\ call = Idle
    /\ \E c \in MergeCalls : Finish(c, merge_nicknames(data_file, c))

ImportData ==
    /\ call = Idle
    /\ \E c \in ImportCalls(data_file) : Finish(c, import_data(data_file, c))

ClearAllData ==
    /\ call = Idle
    /\ \E c \in ClearCalls : Finish(c, clear_all_data(data_file, c))

ProcessUploadedFiles ==
    /\ call = Idle
    /\ \E c \in UploadCalls : Finish(c, process_uploaded_files(data_file, c))

\* the queries leave the document as it is
GetLeaderboard ==
    /\ call = Idle
    /\ \E g \in {"nickname", "name"} :
           /\ call' = [op |-> "get_leaderboard", group_by |-> g]
           /\ result' = Returned(data_file,
                                 [list |-> get_leaderboard(data_file, g)]).result
    /\ UNCHANGED data_file

GetStatistics ==
    /\ call = Idle
    /\ \E g \in {"nickname", "name"} :
           /\ call' = [op |-> "get_statistics", group_by |-> g]
           /\ result' = Returned(data_file,
                                 [dict |-> get_statistics(data_file, g)]).result
    /\ UNCHANGED data_file

IsFileProcessed ==
    /\ call = Idle
    /\ \E file_name \in QueryNames :
           /\ call' = [op |-> "is_file_processed", file_name |-> file_name]
           /\ result' = Returned(data_file,
                                 [bool |-> is_file_processed(data_file,
                                                             file_name)]).result
    /\ UNCHANGED data_file

\* the interaction is over: the application waits for the next one
Return ==
    /\ call # Idle
    /\ call' = Idle
    /\ result' = NoResult
    /\ UNCHANGED data_file

Next ==
    \/ UpdateScoresWithRewards
    \/ UpdateExistingFileScores
    \/ MergeNicknames
    \/ ImportData
    \/ ClearAllData
    \/ ProcessUploadedFiles
    \/ GetLeaderboard
    \/ GetStatistics
    \/ IsFileProcessed
    \/ Return

Spec == Init /\ [][Next]_vars

\* one call of update_scores_with_rewards, with every argument varying,
\* on a new session's document or on one that holds a participant already
SeedCall ==
    [op |-> "update_scores_with_rewards",
     nicknames |-> <<<<"a">>>>,
     times |-> <<>>,
     file_name |-> FileF,
     weight |-> [int |-> 1],
     base_score |-> 2,
     reward_count |-> 0,
     reward_multiplier |-> 3,
     group_by |-> "nickname"]

InitIngest ==
    /\ data_file \in
           {SaveData(EmptyDocument),
            update_scores_with_rewards(SaveData(EmptyDocument), SeedCall).file}
    /\ call = Idle
    /\ result = NoResult

Ingest ==
    /\ call = Idle
    /\ \E c \in IngestCalls :
           /\ data_file' = update_scores_with_rewards(data_file, c).file
           /\ call' = c
           /\ result' = update_scores_with_rewards(data_file, c).result

NextIngest == Ingest

SpecIngest == InitIngest /\ [][NextIngest]_vars

\* get_leaderboard on the document one call of update_scores_with_rewards
\* leaves: up to MaxBoard rows over three participants, a weight per row
BoardNames == {<<"a">>, <<"b">>, <<"c">>}

BoardCalls ==
    {c \in [op : {"update_scores_with_rewards"},
            nicknames : SeqsOf(BoardNames, 0, MaxBoard),
            times : {<<>>},
            file_name : {FileF},
            weight : {[list |-> s] : s \in SeqsOf(Weights, 0, MaxBoard)},
            base_score : {1},
            reward_count : {0},
            reward_multiplier : {2},
            group_by : {"nickname", "name"}] :
        Len(c.weight.list) = Len(c.nicknames)}

InitBoard ==
    /\ data_file \in
           {update_scores_with_rewards(SaveData(EmptyDocument), c).file :
                c \in BoardCalls}
    /\ call = Idle
    /\ result = NoResult

NextBoard == GetLeaderboard

SpecBoard == InitBoard /\ [][NextBoard]_vars

\* extraction of one sheet
SheetRows ==
    [nickname : {<<>>, <<"a">>, <<" ", "a", "!">>, <<"b">>},
     time : {<<"1">>},
     hyperlinks : SUBSET (1..MaxImageCols)]

Sheets ==
    {sheet \in [workbook_opens : BOOLEAN,
                nickname_header : {"keyword", "first_column", "none"},
                time_column : BOOLEAN,
                image_cols : 0..MaxImageCols,
                rows : SeqsOf(SheetRows, 1, MaxSheetRows)] :
        \A i \in 1..Len(sheet.rows) :
            sheet.rows[i].hyperlinks \subseteq 1..sheet.image_cols}

InitExtract ==
    /\ data_file = SaveData(EmptyDocument)
    /\ call = Idle
    /\ result = NoResult

ExtractNicknamesAndTimesFromFile ==
    /\ call = Idle
    /\ \E sheet \in Sheets :
           /\ call' = [op |-> "extract_nicknames_and_times_from_file",
                       sheet |-> sheet]
           /\ result' = Returned(
                  data_file,
                  [tuple |-> extract_nicknames_and_times_from_file(sheet)]).result
    /\ UNCHANGED data_file

NextExtract == ExtractNicknamesAndTimesFromFile

SpecExtract == InitExtract /\ [][NextExtract]_vars

\* ingests and queries on a session file that may be missing or damaged;
\* here data_file holds the file as load_data finds it
LoadQueries ==
    [op : {"get_leaderboard", "get_statistics"}, group_by : {"nickname", "name"}]
    \cup [op : {"is_file_processed"}, file_name : QueryNames]
    \cup [op : {"get_processed_files"}]

\* what the query c returns on the loaded document
QueryAnswer(data, c) ==
    IF c.op = "get_leaderboard"
    THEN Returned(data, [list |-> get_leaderboard(data, c.group_by)])
    ELSE IF c.op = "get_statistics"
    THEN Returned(data, [dict |-> get_statistics(data, c.group_by)])
    ELSE IF c.op = "is_file_processed"
    THEN Returned(data, [bool |-> is_file_processed(data, c.file_name)])
    ELSE IF GetProcessedFilesRaises(data)
    THEN Raised(data, "KeyError")
    ELSE Returned(data, [list |-> get_processed_files(data)])

InitLoad ==
    /\ data_file \in {StoredDocument(SaveData(EmptyDocument)), MissingFile,
                       InvalidJsonFile, UndecodableFile}
    /\ call = Idle
    /\ result = NoResult

IngestStored ==
    /\ call = Idle
    /\ \E c \in LedgerIngestCalls :
           LET loaded == load_data(data_file)
               out == update_scores_with_rewards(loaded.data, c)
           IN  /\ call' = c
               /\ IF loaded.raised # ""
                  THEN /\ result' = Raised(loaded.data, loaded.raised).result
                       /\ data_file' = data_file
                  ELSE /\ Contributions(LoadData(out.file)) <= MaxContribs
                       /\ ScoresBounded(LoadData(out.file))
                       /\ result' = out.result
                       /\ data_file' = StoredDocument(out.file)

QueryStored ==
    /\ call = Idle
    /\ \E c \in LoadQueries :
           LET loaded == load_data(data_file)
           IN  /\ call' = c
               /\ result' = IF loaded.raised # ""
                             THEN Raised(loaded.data, loaded.raised).result
                             ELSE QueryAnswer(loaded.data, c).result
    /\ UNCHANGED data_file

NextLoad == IngestStored \/ QueryStored \/ Return

SpecLoad == InitLoad /\ [][NextLoad]_vars

\* the column finders on one DataFrame
Headers ==
    {<<"N", "C">>, <<" ", "N", "C">>, <<"B", "N", "C">>, <<"X", "M">>,
     <<"B", "O">>, <<"T", "J", "S", "I">>, <<"S", "I">>}

\* n times the value v
Repeat(v, n) == [i \in 1..n |-> v]

\* first columns of up to MaxCells values, in up to three runs
FirstColumns ==
    {Repeat(v[1], n[1]) \o Repeat(v[2], n[2]) \o Repeat(v[3], n[3]) :
        v \in [1..3 -> {"text", "blank", "number", "nan"}],
        n \in {m \in [1..3 -> 0..MaxCells] : m[1] + m[2] + m[3] <= MaxCells}}

DataFrames ==
    [columns : SeqsOf(Headers, 1, MaxCols),
     first_column : {<<"text">>, <<"number">>}]
    \cup [columns : {<<<<"B", "O">>>>, <<<<"B", "O">>, <<"T", "J", "S", "I">>>>},
          first_column : FirstColumns]

InitColumns ==
    /\ data_file = SaveData(EmptyDocument)
    /\ call = Idle
    /\ result = NoResult

FindNicknameColumn ==
    /\ call = Idle
    /\ \E df \in DataFrames :
           /\ call' = [op |-> "find_nickname_column", df |-> df]
           /\ result' = Returned(data_file, find_nickname_column(df)).result
    /\ UNCHANGED data_file

FindTimeColumn ==
    /\ call = Idle
    /\ \E df \in DataFrames :
           /\ call' = [op |-> "find_time_column", df |-> df]
           /\ result' = Returned(data_file, find_time_column(df)).result
    /\ UNCHANGED data_file

NextColumns == FindNicknameColumn \/ FindTimeColumn

SpecColumns == InitColumns /\ [][NextColumns]_vars

\* extraction of one uploaded file, from its name on
Frames ==
    {[kind |-> "frame",
      labels |-> <<[str |-> <<"B", "O">>], [str |-> <<"N", "C">>]>>,
      first_column |-> <<"number">>],
     [kind |-> "frame", labels |-> <<[str |-> <<"B", "O">>]>>,
      first_column |-> <<"text">>],
     [kind |-> "frame",
      labels |-> <<[str |-> <<"B", "O">>], [str |-> <<"S", "I">>]>>,
      first_column |-> <<"number">>],
     [kind |-> "frame", labels |-> <<[int |-> 1], [str |-> <<"B", "O">>]>>,
      first_column |-> <<"number">>],
     [kind |-> "empty", labels |-> <<[str |-> <<"B", "O">>]>>,
      first_column |-> <<>>],
     [kind |-> "raises", labels |-> <<>>, first_column |-> <<>>]}

BookRows ==
    [nickname : {<<"a">>, <<" ", "a", "!">>, <<"!">>},
     time : {<<"1">>, <<"2">>},
     hyperlinks : {{}}]

BookSheets ==
    [workbook_opens : {TRUE},
     nickname_header : {"none"},
     time_column : {TRUE},
     image_cols : {0},
     rows : SeqsOf(BookRows, 1, MaxSheetRows)]

Books ==
    [file_name : UploadNames \cup {<<"t">>},
     header0 : Frames,
     header1 : Frames,
     sheet : BookSheets]

InitBook ==
    /\ data_file = SaveData(EmptyDocument)
    /\ call = Idle
    /\ result = NoResult

ExtractFromFile ==
    /\ call = Idle
    /\ \E book \in Books :
           /\ call' = [op |-> "extract_nicknames_and_times_from_file",
                       book |-> book,
                       validate_file_format |->
                           validate_file_format(book.file_name)]
           /\ result' = Returned(data_file,
                                 [tuple |-> ReadAndExtract(book)]).result
    /\ UNCHANGED data_file

NextBook == ExtractFromFile

SpecBook == InitBook /\ [][NextBook]_vars

\* ingests and weight-change updates with nicknames as an operator may give
\* them, on a new session's document or an emptied one
KeyIngestCalls ==
    [op : {"update_scores_with_rewards"},
     nicknames : SeqsOf(Nicknames, 1, 2),
     times : {<<>>},
     file_name : {FileF, FileG},
     weight : {[int |-> 1]},
     base_score : {1},
     reward_count : {0},
     reward_multiplier : {2},
     group_by : {"nickname", "name"}]

InitKeys ==
    /\ data_file \in {SaveData(EmptyDocument), SaveData(WipedDocument)}
    /\ call = Idle
    /\ result = NoResult

KeysIngest ==
    /\ call = Idle
    /\ \E c \in KeyIngestCalls :
           Finish(c, update_scores_with_rewards(data_file, c))

NextKeys == KeysIngest \/ UpdateExistingFileScores \/ Return

SpecKeys == InitKeys /\ [][NextKeys]_vars

\* a session whose document only this DataManager wrote: a new document,
\* then ingests, with updates, merges and get_all_nicknames between them
GetAllNicknames ==
    /\ call = Idle
    /\ call' = [op |-> "get_all_nicknames"]
    /\ result' = get_all_nicknames(data_file).result
    /\ UNCHANGED data_file

NextSchema ==
    \/ UpdateScoresWithRewards
    \/ UpdateExistingFileScores
    \/ MergeNicknames
    \/ GetAllNicknames
    \/ Return

SpecSchema == Init /\ [][NextSchema]_vars

\* two processes of one session, each running update_scores_with_rewards
\* once.  Here call holds, per process, where it stands (pc), its arguments
\* (c) and the document it loaded (data), and the order of the loads and
\* saves so far.
Processes == {1, 2}

RaceCalls == {c \in LedgerIngestCalls : c.weight = [int |-> 1]}

\* a faulty variant of IngestFromSnapshot: the rows are scored into the
\* document as it is stored at the time of the save
IngestFromCurrent(current, snapshot, c) ==
    update_scores_with_rewards(current, c).file

\* lines 119-203: the document a process saves is the one it loaded at
\* line 119 with its own rows scored, whatever the file holds by then
IngestFromSnapshot(current, snapshot, c) ==
    update_scores_with_rewards(snapshot, c).file

InitRace ==
    /\ data_file \in
           {SaveData(EmptyDocument),
            update_scores_with_rewards(SaveData(EmptyDocument), SeedCall).file}
    /\ call = [op |-> "concurrent",
               procs |-> [p \in Processes |->
                             [pc |-> "start", c |-> Idle,
                              data |-> EmptyDocument]],
               order |-> <<>>]
    /\ result = NoResult

\* line 119: a process enters update_scores_with_rewards and loads
ProcessLoads ==
    \E p \in Processes : \E c \in RaceCalls :
        /\ call.procs[p].pc = "start"
        /\ call' = [call EXCEPT
                       !.procs[p] = [pc |-> "loaded", c |-> c,
                                     data |-> LoadData(data_file)],
                       !.order = Append(@, [step |-> "load", p |-> p])]
        /\ UNCHANGED <<data_file, result>>

\* lines 127-203: it scores its rows and saves
ProcessSaves ==
    \E p \in Processes :
        /\ call.procs[p].pc = "loaded"
        /\ data_file' = IngestFromSnapshot(data_file, call.procs[p].data,
                                           call.procs[p].c)
        /\ call' = [call EXCEPT
                       !.procs[p].pc = "done",
                       !.order = Append(@, [step |-> "save", p |-> p])]
        /\ UNCHANGED result

NextRace == ProcessLoads \/ ProcessSaves

SpecRace == InitRace /\ [][NextRace]_vars

(***************************************************************************)
(* The properties.                                                         *)
(***************************************************************************)
\* a step in which the operation op runs
Runs(op) == call = Idle /\ call'.op = op

\* the last operation was op and it returned
Ran(op) == call.op = op /\ result.raised = ""

RECURSIVE SumPoints(_)
SumPoints(files) ==
    IF files = <<>> THEN 0 ELSE Head(files).points + SumPoints(Tail(files))

RECURSIVE SumScores(_)
SumScores(records) ==
    IF records = <<>> THEN 0
    ELSE Head(records).val.score + SumScores(Tail(records))

ConservedIn(records) ==
    \A i \in 1..Len(records) :
        records[i].val.score = SumPoints(records[i].val.files)

\* C1 (score conservation): in every state, in every participant map of the
\* document, each participant's score is the sum of the points of that
\* participant's contribution records.
\* Fails: on a document that has the map "records",
\* update_existing_file_scores adds new_weight - old_weight to the score and
\* sets the points of the file's record to new_weight.
ScoreConservation ==
    LET d == LoadData(data_file)
    IN  /\ ConservedIn(d.records_by_nickname)
        /\ ConservedIn(d.records_by_name)
        /\ "records" \in DOMAIN d => ConservedIn(d.records)

\* C2 (unchanged re-ingestion): when the first file of a batch is in the
\* processed-file registry and is submitted with the weight recorded for it
\* (1 when the entry records none), the batch skips it and the document is
\* unchanged.
\* Fails: for an entry update_scores_with_rewards wrote, get_processed_files
\* raises KeyError and the batch ends.
UnchangedReingestSkipped ==
    [][(/\ Runs("process_uploaded_files")
        /\ is_file_processed(data_file, call'.uploaded_files[1])
        /\ call'.file_weights[call'.uploaded_files[1]]
              = OldWeight(LoadData(data_file).processed_files,
                          call'.uploaded_files[1]))
       => (/\ result'.returned.list[1] = "skipped"
           /\ data_file' = data_file)]_vars

\* the rows of the call c are well formed for the reward rule: a timestamp
\* per row, all ranked and distinct; a weight per row; identifiers that are
\* non-blank and distinct after trimming
RewardCase(c) ==
    /\ c.reward_count > 0
    /\ c.nicknames # <<>>
    /\ Len(c.times) = Len(c.nicknames)
    /\ IsInt(c.weight) \/ Len(c.weight.list) = Len(c.nicknames)
    /\ \A i \in 1..Len(c.times) : IsRankedTime(c.times[i])
    /\ \A i, j \in 1..Len(c.times) : i # j => c.times[i] # c.times[j]
    /\ \A i \in 1..Len(c.nicknames) : Strip(c.nicknames[i]) # <<>>
    /\ \A i, j \in 1..Len(c.nicknames) :
           i # j => Strip(c.nicknames[i]) # Strip(c.nicknames[j])

\* row i of the call c is one of the c.reward_count earliest rows
IsEarliest(c, i) ==
    Cardinality({j \in 1..Len(c.times) :
                     j # i /\ StrLeq(c.times[j], c.times[i])})
        < c.reward_count

\* C3 (reward correctness): after an ingest with reward_count > 0 and
\* distinct timestamps, the contribution appended for a row has
\* points = reward_multiplier * base_score * weight when the row is one of
\* the reward_count earliest, and base_score * weight otherwise.
\* Fails: the rewarded set holds the identifiers as given, the loop looks
\* the trimmed identifier up in it.
RewardCorrectness ==
    (Ran("update_scores_with_rewards") /\ RewardCase(call)) =>
        LET records == LoadData(data_file)[RecordsKey(call.group_by)]
            weights == NormalizeWeights(call.nicknames, call.weight)
        IN  \A i \in 1..Len(call.nicknames) :
                LET files == Get(records, Strip(call.nicknames[i])).files
                    basic == call.base_score * weights[i]
                IN  files[Len(files)].points =
                        IF IsEarliest(call, i)
                        THEN call.reward_multiplier * basic
                        ELSE basic

\* C4 (leaderboard ordering): get_leaderboard returns one entry per
\* participant of the map it reads, with that participant's score, in
\* non-increasing order of score, and entries of equal score are in the
\* insertion order of the map.
LeaderboardOrdering ==
    Ran("get_leaderboard") =>
        LET records == LoadData(data_file)[RecordsKey(call.group_by)]
            board == result.returned.list
        IN  /\ Len(board) = Len(records)
            /\ \A i \in 1..Len(records) :
                   Cardinality({j \in 1..Len(board) :
                                    board[j].nickname = records[i].key}) = 1
            /\ \A j \in 1..Len(board) :
                   board[j].score = Get(records, board[j].nickname).score
            /\ \A j, k \in 1..Len(board) :
                   j < k => board[j].score >= board[k].score
            /\ \A j, k \in 1..Len(board) :
                   (j < k /\ board[j].score = board[k].score)
                       => Pos(records, board[j].nickname)
                              < Pos(records, board[k].nickname)

\* a leaderboard of three entries whose order is not the map's: the first
\* has the highest score, the other two are tied
LeaderboardTieAfterLeader ==
    /\ Ran("get_leaderboard")
    /\ Len(result.returned.list) = 3
    /\ result.returned.list[1].score > result.returned.list[2].score
    /\ result.returned.list[2].score = result.returned.list[3].score
    /\ result.returned.list[1].nickname
           # LoadData(data_file)[RecordsKey(call.group_by)][1].key

\* the participants, scores and processed files of two loaded documents agree
SameLedger(d, e) ==
    /\ d.records_by_nickname = e.records_by_nickname
    /\ d.records_by_name = e.records_by_name
    /\ d.processed_files = e.processed_files
    /\ ("records" \in DOMAIN d) = ("records" \in DOMAIN e)
    /\ "records" \in DOMAIN d => d.records = e.records

\* C5 (export/import round trip): importing the export of the current
\* document succeeds and leaves the same participants, scores and
\* processed files.
\* Fails: the export of a document ensure_data_file_exists created has
\* neither "records" nor "total_files_processed", which import_data
\* requires.
ExportImportRoundTrip ==
    [][(/\ Runs("import_data")
        /\ call'.import_file = export_user_data(data_file))
       => (/\ result'.raised = ""
           /\ result'.returned.bool
           /\ SameLedger(LoadData(data_file), LoadData(data_file')))]_vars

\* the sources of a merge other than the target, each once, in the order
\* given
RECURSIVE MergedSources(_, _)
MergedSources(sources, target) ==
    IF sources = <<>> THEN <<>>
    ELSE LET rest == MergedSources(SubSeq(sources, 1, Len(sources) - 1),
                                   target)
             last == sources[Len(sources)]
         IN  IF last = target \/ \E i \in 1..Len(rest) : rest[i] = last
             THEN rest
             ELSE Append(rest, last)

RECURSIVE SourceScores(_, _)
SourceScores(records, sources) ==
    IF sources = <<>> THEN 0
    ELSE Get(records, Head(sources)).score
         + SourceScores(records, Tail(sources))

RECURSIVE SourceFiles(_, _)
SourceFiles(records, sources) ==
    IF sources = <<>> THEN <<>>
    ELSE Get(records, Head(sources)).files
         \o SourceFiles(records, Tail(sources))

\* C6 (merge): when every source is a participant that ingest created (a
\* key of records_by_nickname) and the target is one too or is a source,
\* merge_nicknames returns True; afterwards the target's score is its old
\* score plus the scores of the sources, its history is its old history
\* followed by theirs, no source other than the target is left, and the
\* total score is unchanged.
\* Fails: merge_nicknames reads data["records"], which such a document
\* does not have: KeyError.
MergeSumsScores ==
    [][(/\ Runs("merge_nicknames")
        /\ call'.source_nicknames # <<>>
        /\ call'.target_nickname # <<>>
        /\ \A i \in 1..Len(call'.source_nicknames) :
               Has(LoadData(data_file).records_by_nickname,
                   call'.source_nicknames[i])
        /\ \/ Has(LoadData(data_file).records_by_nickname,
                  call'.target_nickname)
           \/ \E i \in 1..Len(call'.source_nicknames) :
                  call'.source_nicknames[i] = call'.target_nickname)
       => LET old == LoadData(data_file).records_by_nickname
              new == LoadData(data_file').records_by_nickname
              target == call'.target_nickname
              sources == MergedSources(call'.source_nicknames, target)
              before == IF Has(old, target)
                        THEN Get(old, target)
                        ELSE [score |-> 0, files |-> <<>>]
          IN  /\ result'.raised = ""
              /\ result'.returned.bool
              /\ Has(new, target)
              /\ Get(new, target).score
                     = before.score + SourceScores(old, sources)
              /\ Get(new, target).files
                     = before.files \o SourceFiles(old, sources)
              /\ \A i \in 1..Len(sources) : ~Has(new, sources[i])
              /\ SumScores(new) = SumScores(old)]_vars

\* the keys of every participant map of a loaded document
Participants(d) ==
    {d.records_by_nickname[i].key : i \in 1..Len(d.records_by_nickname)}
    \cup {d.records_by_name[i].key : i \in 1..Len(d.records_by_name)}
    \cup (IF "records" \in DOMAIN d
          THEN {d.records[i].key : i \in 1..Len(d.records)}
          ELSE {})

\* C7 (invalid merge): when the target is empty, or there are no sources,
\* or the target is neither a participant nor a source, merge_nicknames
\* raises nothing, returns False and leaves the document as it was.
\* Fails: on a document without "records" the lookup of the target raises
\* KeyError.
InvalidMergeReturnsFalse ==
    [][(/\ Runs("merge_nicknames")
        /\ \/ call'.target_nickname = <<>>
           \/ call'.source_nicknames = <<>>
           \/ /\ call'.target_nickname
                     \notin Participants(LoadData(data_file))
              /\ \A i \in 1..Len(call'.source_nicknames) :
                     call'.source_nicknames[i] # call'.target_nickname)
       => (/\ result'.raised = ""
           /\ ~result'.returned.bool
           /\ data_file' = data_file)]_vars

\* the call c gives a per-row weight list of another length than nicknames
WeightListMismatch(c) ==
    ~IsInt(c.weight) /\ Len(c.weight.list) # Len(c.nicknames)

\* C8 (weight list length): update_scores_with_rewards with a per-row
\* weight list whose length differs from that of nicknames raises
\* ValueError, and the document is as it was before the call.
WeightLengthMismatchFails ==
    [][(Runs("update_scores_with_rewards") /\ WeightListMismatch(call'))
       => (/\ result'.raised = "ValueError"
           /\ data_file' = data_file)]_vars

\* a call with one row and two weights was refused, and the document
\* still holds the participant it held
WeightLengthMismatchRefused ==
    /\ call.op = "update_scores_with_rewards"
    /\ WeightListMismatch(call)
    /\ Len(call.nicknames) = 1
    /\ Len(call.weight.list) = 2
    /\ result.raised = "ValueError"
    /\ Has(LoadData(data_file).records_by_nickname, <<"a">>)

\* C9 (times length): update_scores_with_rewards with a non-empty times
\* list whose length differs from that of nicknames raises a length
\* mismatch error and scores no row: the document is as it was.
\* Fails: the length of times is never compared; zip pairs the rows up to
\* the shorter list and every row is scored.
TimesLengthMismatchFails ==
    [][(/\ Runs("update_scores_with_rewards")
        /\ call'.times # <<>>
        /\ Len(call'.times) # Len(call'.nicknames))
       => (/\ result'.raised = "ValueError"
           /\ data_file' = data_file)]_vars

\* what the design calls the FileIngestRecord: the aggregates of one
\* ingestion
FileIngestRecordFields ==
    {"nicknames_count", "weight", "base_score", "total_points",
     "reward_count", "reward_multiplier", "rewarded_users"}

\* C10 (file ingest record): after update_scores_with_rewards with a
\* non-empty file_name, the registry entry of the file holds the aggregates
\* of the ingestion and the rewarded identifiers, and get_processed_files
\* returns.
\* Fails: the entry update_scores_with_rewards writes holds processed_date
\* only, and get_processed_files raises KeyError on it.
FileIngestRecordCaptured ==
    (Ran("update_scores_with_rewards") /\ call.file_name # <<>>) =>
        LET processed_files == LoadData(data_file).processed_files
        IN  /\ Has(processed_files, call.file_name)
            /\ FileIngestRecordFields
                   \subseteq DOMAIN Get(processed_files, call.file_name)
            /\ ~GetProcessedFilesRaises(data_file)

\* the first contribution record for file_name in a history
FirstFor(files, file_name) ==
    files[CHOOSE j \in 1..Len(files) :
              /\ files[j].file_name = file_name
              /\ \A k \in 1..(j - 1) : files[k].file_name # file_name]

\* nickname was scored for file_name by an ingest: it is a key of
\* records_by_nickname with a contribution record for the file
IngestedFor(d, nickname, file_name) ==
    /\ Has(d.records_by_nickname, nickname)
    /\ \E j \in 1..Len(Get(d.records_by_nickname, nickname).files) :
           Get(d.records_by_nickname, nickname).files[j].file_name = file_name

\* C11 (weight-change update): when every participant named in
\* update_existing_file_scores was scored for the file by an ingest with
\* weight w, the update returns and the score of each of them, in the map
\* ingest writes, has changed by exactly new_weight - w.
\* Fails: the update reads data["records"], which such a document lacks
\* (KeyError); where that map exists, the old weight is taken as 1 because
\* ingest records no weight for the file.
WeightChangeUpdate ==
    [][(/\ Runs("update_existing_file_scores")
        /\ \E i \in 1..Len(call'.nicknames) :
               Strip(call'.nicknames[i]) # <<>>
        /\ \A i \in 1..Len(call'.nicknames) :
               Strip(call'.nicknames[i]) # <<>> =>
                   IngestedFor(LoadData(data_file),
                               Strip(call'.nicknames[i]), call'.file_name))
       => (/\ result'.raised = ""
           /\ \A i \in 1..Len(call'.nicknames) :
                  LET nickname == Strip(call'.nicknames[i])
                      old == Get(LoadData(data_file).records_by_nickname,
                                 nickname)
                      new == LoadData(data_file').records_by_nickname
                  IN  nickname # <<>> =>
                          /\ Has(new, nickname)
                          /\ Get(new, nickname).score - old.score
                                 = call'.new_weight
                                   - FirstFor(old.files,
                                              call'.file_name).weight)]_vars

\* the participants the call c names, trimmed, whose last contribution
\* record in the map the call wrote is marked rewarded
RewardedParticipants(d, c) ==
    {Strip(c.nicknames[i]) : i \in
        {j \in 1..Len(c.nicknames) :
            /\ Strip(c.nicknames[j]) # <<>>
            /\ LET files == Get(d[RecordsKey(c.group_by)],
                                Strip(c.nicknames[j])).files
               IN  files[Len(files)].is_rewarded}}

\* C12 (returned count): update_scores_with_rewards returns the number of
\* distinct participants whose contribution record appended by the call
\* is marked rewarded.
\* Fails: the call returns the size of the rewarded set, which holds the
\* identifiers as given; an identifier with surrounding whitespace, a
\* blank one, or two that trim to the same participant are counted though
\* no such participant is rewarded.
ReturnedRewardCount ==
    Ran("update_scores_with_rewards") =>
        result.returned.int
            = Cardinality(RewardedParticipants(LoadData(data_file), call))

\* the number of distinct file names of a history: the records that are the
\* first of their file
DistinctFiles(files) ==
    Cardinality({j \in 1..Len(files) :
                    \A k \in 1..(j - 1) :
                        files[k].file_name # files[j].file_name})

\* C13 (participation count): every entry get_leaderboard returns is a
\* participant of the map it reads, and its participation_count is the
\* number of distinct file names in that participant's history, whatever
\* the number of contribution records (the states checked include those a
\* merge leaves).
ParticipationCountsDistinctFiles ==
    Ran("get_leaderboard") =>
        LET records == LoadData(data_file)[RecordsKey(call.group_by)]
            board == result.returned.list
        IN  /\ Len(board) = Len(records)
            /\ \A i \in 1..Len(board) :
                   /\ Has(records, board[i].nickname)
                   /\ board[i].participation_count
                          = DistinctFiles(Get(records, board[i].nickname).files)

\* get_leaderboard answered for a participant with two contribution records
\* for one file, and counted the file once
SameFileTwiceCountedOnce ==
    /\ Ran("get_leaderboard")
    /\ \E i \in 1..Len(result.returned.list) :
           LET entry == result.returned.list[i]
               files == Get(LoadData(data_file)[RecordsKey(call.group_by)],
                            entry.nickname).files
           IN  /\ Len(files) = 2
               /\ files[1].file_name = files[2].file_name
               /\ entry.participation_count = 1

\* C14 (statistics): get_statistics returns the sum of the scores of the
\* map as total_checkins, the number of its keys as total_participants and
\* the size of the registry as total_files_processed.
StatisticsTotals ==
    Ran("get_statistics") =>
        LET data == LoadData(data_file)
            records == data[RecordsKey(call.group_by)]
            statistics == result.returned.dict
        IN  /\ statistics.total_checkins = SumScores(records)
            /\ statistics.total_participants
                   = Cardinality({records[i].key : i \in 1..Len(records)})
            /\ statistics.total_files_processed
                   = Cardinality({data.processed_files[i].key :
                                     i \in 1..Len(data.processed_files)})

\* get_statistics answered on a ledger of two participants, one file and
\* three points
StatisticsOfWeightedLedger ==
    /\ Ran("get_statistics")
    /\ result.returned.dict.total_participants = 2
    /\ result.returned.dict.total_files_processed = 1
    /\ result.returned.dict.total_checkins = 3

NoWeightSignal(sheet, nickname) ==
    \/ sheet.image_cols = 0
    \/ \A i \in 1..Len(sheet.rows) :
           clean_nickname(sheet.rows[i].nickname) = nickname =>
               sheet.rows[i].hyperlinks = {}

\* C16 (weight default): when extraction succeeds, every extracted row with
\* no image or hyperlink signal has weight 1.
\* Fails: count_images_in_excel records 0 for such a row whenever it reads
\* the workbook, and the default of 1 applies only to nicknames it did not
\* record.
WeightDefaultsToOne ==
    (Ran("extract_nicknames_and_times_from_file")
     /\ result.returned.tuple.error = "") =>
        \A i \in 1..Len(result.returned.tuple.nicknames) :
            NoWeightSignal(call.sheet, result.returned.tuple.nicknames[i]) =>
                result.returned.tuple.image_counts[i] = 1

LoadRecovery ==
    [][(/\ call = Idle
        /\ call' # Idle
        /\ data_file.kind # "json")
       => (/\ result'.raised = ""
           /\ call'.op = "update_scores_with_rewards" =>
                  data_file' = StoredDocument(
                      update_scores_with_rewards(EmptyDocument, call').file)
           /\ call'.op = "get_leaderboard" => result'.returned.list = <<>>
           /\ call'.op = "is_file_processed" => ~result'.returned.bool)]_vars

\* the ledger of the document holds no participant and no file
LedgerEmpty(d) ==
    /\ d.records_by_nickname = <<>>
    /\ d.records_by_name = <<>>
    /\ d.processed_files = <<>>
    /\ "records" \in DOMAIN d => d.records = <<>>

\* C19 (operator wipe): when the operator confirms the wipe on a session
\* that has a ledger document, a backup holding the current ledger is
\* written and the ledger is then empty.
\* Fails: the wipe is guarded by the existence of data/records.json, which
\* is not the session's document; without that file nothing is backed up
\* and nothing is emptied.
WipeBacksUpThenEmpties ==
    [][(/\ Runs("clear_all_data")
        /\ ~LedgerEmpty(LoadData(data_file)))
       => (/\ result'.raised = ""
           /\ "backup" \in DOMAIN result'.returned
           /\ result'.returned.backup = LoadData(data_file)
           /\ LedgerEmpty(LoadData(data_file')))]_vars

\* C20 (batch processing): a batch of uploaded files is handled in
\* submission order to its end: process_uploaded_files raises nothing and
\* reaches an outcome for every file of the batch, whatever happened to the
\* files before it.
\* Fails: the call of extract_nicknames_and_times_from_file unpacks four
\* returned values into three names, which raises ValueError for the first
\* file that reaches it; nothing in the loop catches it, so the batch ends
\* there, the later files are not handled and no file is ingested.
BatchHandlesEveryFile ==
    [][Runs("process_uploaded_files") =>
           /\ result'.raised = ""
           /\ Len(result'.returned.list) = Len(call'.uploaded_files)]_vars

\* both processes have saved
BothSaved == call.op = "concurrent" /\ Len(call.order) = 4

\* both processes loaded before either saved
LoadsOverlapped ==
    /\ BothSaved
    /\ call.order[1].step = "load"
    /\ call.order[2].step = "load"

\* C21 (lost update): there is no lock between the load and the save of an
\* ingest.  When two processes of a session both load before either saves,
\* the stored ledger after both saves holds the rows of the process that
\* saved last and lacks those of the other: it has only as many
\* contribution records as the last saver alone would have left.  When one
\* process saves before the other loads, the rows of both are there.
LostUpdateUnderConcurrency ==
    BothSaved =>
        LET first == call.procs[call.order[1].p]
            last  == call.procs[call.order[4].p]
            other == call.procs[3 - call.order[4].p]
            before == CountFiles(first.data.records_by_nickname)
            after == CountFiles(LoadData(data_file).records_by_nickname)
        IN  IF LoadsOverlapped
            THEN /\ data_file
                        = update_scores_with_rewards(first.data, last.c).file
                 /\ after = before + Len(last.c.nicknames)
                 /\ after < before + Len(last.c.nicknames)
                                   + Len(other.c.nicknames)
            ELSE after = before + Len(last.c.nicknames)
                                + Len(other.c.nicknames)

\* both processes loaded before either saved, each ingested a file of its
\* own, and the file of the process that saved first is not in the ledger
FirstSaverLost ==
    /\ LoadsOverlapped
    /\ LET lost == call.procs[call.order[3].p].c
           kept == call.procs[call.order[4].p].c
           records == LoadData(data_file).records_by_nickname
       IN  /\ lost.file_name # kept.file_name
           /\ is_file_processed(data_file, kept.file_name)
           /\ ~is_file_processed(data_file, lost.file_name)
           /\ \A i \in 1..Len(records) :
                  \A j \in 1..Len(records[i].val.files) :
                      records[i].val.files[j].file_name # lost.file_name

\* some header is a nickname keyword once trimmed / holds one
SomeHeaderEquals(columns) ==
    \E i \in 1..Len(columns) : \E k \in 1..Len(NICKNAME_KEYWORDS) :
        Strip(columns[i]) = NICKNAME_KEYWORDS[k]

SomeHeaderContains(columns) ==
    \E i \in 1..Len(columns) : \E k \in 1..Len(NICKNAME_KEYWORDS) :
        Contains(columns[i], NICKNAME_KEYWORDS[k])

\* C22 (find_nickname_column precedence): when a header equals a nickname
\* keyword after trimming, the header returned is such a header; otherwise,
\* when a header contains a keyword, the header returned contains one;
\* only otherwise is the answer the first column or None.  For the headers
\* number, nickname, submit time the nickname finder returns nickname and
\* the time finder returns submit time.
FindNicknameColumnPrecedence ==
    /\ Ran("find_nickname_column") =>
        LET columns == call.df.columns
            returned == result.returned
        IN  /\ SomeHeaderEquals(columns) =>
                   /\ "text" \in DOMAIN returned
                   /\ SomeHeaderEquals(<<returned.text>>)
            /\ (~SomeHeaderEquals(columns) /\ SomeHeaderContains(columns)) =>
                   /\ "text" \in DOMAIN returned
                   /\ SomeHeaderContains(<<returned.text>>)
            /\ (~SomeHeaderEquals(columns) /\ ~SomeHeaderContains(columns)) =>
                   returned \in {[str |-> "None"], [text |-> columns[1]]}
            /\ columns = <<<<"B", "O">>, <<"N", "C">>, <<"T", "J", "S", "I">>>>
                   => returned = [text |-> <<"N", "C">>]
    /\ (/\ Ran("find_time_column")
        /\ call.df.columns
               = <<<<"B", "O">>, <<"N", "C">>, <<"T", "J", "S", "I">>>>) =>
           result.returned = [text |-> <<"T", "J", "S", "I">>]

\* the first header holds a keyword without being one, a later header is
\* one once trimmed, and the later header was returned
ExactHeaderBeatsEarlierSubstring ==
    /\ Ran("find_nickname_column")
    /\ call.df.columns = <<<<"B", "N", "C">>, <<" ", "N", "C">>>>
    /\ result.returned = [text |-> <<" ", "N", "C">>]

\* C23 (fallback threshold): when no header matches a nickname keyword, the
\* first column is returned exactly when at least 70% of its first 10
\* non-empty values are plain text, and None otherwise.
\* Fails: the test is text_count / len(sample_data) > 0.7, so 7 text values
\* of 10 give None.
FallbackThreshold ==
    (/\ Ran("find_nickname_column")
     /\ ~SomeHeaderContains(call.df.columns)) =>
        LET present == SelectSeq(call.df.first_column,
                                 LAMBDA v : v # "nan")
            sample == IF Len(present) > 10
                      THEN SubSeq(present, 1, 10) ELSE present
            texts == Cardinality({i \in 1..Len(sample) : sample[i] = "text"})
        IN  IF Len(sample) > 0 /\ 10 * texts >= 7 * Len(sample)
            THEN result.returned = [text |-> call.df.columns[1]]
            ELSE result.returned = [str |-> "None"]

\* the extraction ran on a file of a supported format whose first reading
\* gave a DataFrame with rows
ExtractedBook ==
    /\ Ran("extract_nicknames_and_times_from_file")
    /\ "book" \in DOMAIN call
    /\ result.returned.tuple.error # "unsupported format"
    /\ call.book.header0.kind = "frame"

\* the frame of a header row gives a nickname column
HeaderRowGives(frame) ==
    /\ frame.kind = "frame"
    /\ find_nickname_column(AsDataFrame(frame)) # [str |-> "None"]

\* C24 (header retry, missing column): when neither row 1 nor row 2 as
\* header gives a nickname column, extraction returns empty sequences and
\* an error that lists the header names of the table; when one of them
\* does, that error is not returned.
\* Fails: the list is built by ", ".join(df.columns.tolist()); a header cell
\* that holds a number gives a label that is not a str, join raises
\* TypeError and the error returned is the general one, without the header
\* names.
HeaderRetryAndMissingColumn ==
    ExtractedBook =>
        LET out == result.returned.tuple
            book == call.book
        IN  IF HeaderRowGives(book.header0) \/ HeaderRowGives(book.header1)
            THEN out.error # "no nickname column"
            ELSE /\ out.error = "no nickname column"
                 /\ out.available_columns # <<>>
                 /\ out.available_columns
                        \in {AsDataFrame(book.header0).columns,
                             AsDataFrame(book.header1).columns}
                 /\ out.nicknames = <<>>
                 /\ out.times = <<>>
                 /\ out.image_counts = <<>>

\* the rows of the sheet whose cleaned nickname is not empty and is not that
\* of an earlier row
FirstOccurrences(rows) ==
    {i \in 1..Len(rows) :
        /\ clean_nickname(rows[i].nickname) # <<>>
        /\ \A k \in 1..(i - 1) :
               clean_nickname(rows[k].nickname)
                   # clean_nickname(rows[i].nickname)}

\* the row the j-th extracted nickname comes from
RowOf(rows, j) ==
    CHOOSE i \in FirstOccurrences(rows) :
        Cardinality({k \in FirstOccurrences(rows) : k <= i}) = j

\* C25 (extraction shape): a successful extraction returns nicknames, times
\* and weights of one length, in the order of the rows; no nickname
\* returned is empty, and a row whose cleaned nickname is empty leaves
\* nothing in any of the three.
ExtractionShape ==
    (/\ Ran("extract_nicknames_and_times_from_file")
     /\ "sheet" \in DOMAIN call
     /\ result.returned.tuple.error = "") =>
        LET out == result.returned.tuple
            rows == call.sheet.rows
        IN  /\ Len(out.times) = Len(out.nicknames)
            /\ Len(out.image_counts) = Len(out.nicknames)
            /\ Len(out.nicknames) = Cardinality(FirstOccurrences(rows))
            /\ \A j \in 1..Len(out.nicknames) :
                   /\ out.nicknames[j] # <<>>
                   /\ out.nicknames[j]
                          = clean_nickname(rows[RowOf(rows, j)].nickname)
                   /\ out.times[j]
                          = IF call.sheet.time_column
                            THEN rows[RowOf(rows, j)].time ELSE <<>>

\* an extraction dropped a row with an empty cleaned nickname and kept the
\* row after it
EmptyRowDropped ==
    /\ Ran("extract_nicknames_and_times_from_file")
    /\ "sheet" \in DOMAIN call
    /\ Len(call.sheet.rows) = 2
    /\ call.sheet.rows[1].nickname = <<>>
    /\ Len(result.returned.tuple.nicknames) = 1
    /\ Len(result.returned.tuple.times) = 1
    /\ Len(result.returned.tuple.image_counts) = 1

\* C26 (dedup policy): the nicknames an extraction returns hold no
\* duplicate; a nickname of several rows is returned once, with the time of
\* the first of its rows.
ExtractionKeepsFirstOccurrence ==
    (ExtractedBook /\ result.returned.tuple.error = "") =>
        LET out == result.returned.tuple
            rows == call.book.sheet.rows
        IN  /\ \A i, j \in 1..Len(out.nicknames) :
                   out.nicknames[i] = out.nicknames[j] => i = j
            /\ \A i \in FirstOccurrences(rows) :
                   \E j \in 1..Len(out.nicknames) :
                       /\ out.nicknames[j] = clean_nickname(rows[i].nickname)
                       /\ out.times[j] = rows[i].time

\* two rows clean to one nickname with different times, and the extraction
\* returned the nickname once with the time of the first row
DuplicateRowKeptFirstTime ==
    /\ ExtractedBook
    /\ result.returned.tuple.error = ""
    /\ Len(call.book.sheet.rows) = 2
    /\ call.book.sheet.rows[1].nickname = <<"a">>
    /\ call.book.sheet.rows[2].nickname = <<" ", "a", "!">>
    /\ call.book.sheet.rows[1].time = <<"2">>
    /\ call.book.sheet.rows[2].time = <<"1">>
    /\ result.returned.tuple.nicknames = <<<<"a">>>>
    /\ result.returned.tuple.times = <<<<"2">>>>

\* C30 (extension check agreement): validate_file_format accepts a file
\* name exactly when extraction does not reject it as an unsupported
\* format.
\* Fails: validate_file_format lowers the name before testing its ending,
\* extraction tests the name as given, so a name ending in .XLSX is
\* accepted by the one and rejected by the other.
ExtensionCheckAgreement ==
    (/\ Ran("extract_nicknames_and_times_from_file")
     /\ "book" \in DOMAIN call) =>
        (call.validate_file_format
             <=> result.returned.tuple.error # "unsupported format")

\* the keys of the participant maps of a document
ParticipantKeys(d) ==
    {d.records_by_nickname[i].key : i \in 1..Len(d.records_by_nickname)}
    \cup {d.records_by_name[i].key : i \in 1..Len(d.records_by_name)}
    \cup (IF "records" \in DOMAIN d
          THEN {d.records[i].key : i \in 1..Len(d.records)} ELSE {})

\* the text is not empty and neither begins nor ends with whitespace
Trimmed(s) ==
    /\ s # <<>>
    /\ s[1] \notin Whitespace
    /\ s[Len(s)] \notin Whitespace

\* every character of the text is whitespace
Blank(s) == \A i \in 1..Len(s) : s[i] \in Whitespace

\* the scores of the participant maps of a document, summed
LedgerTotal(d) ==
    SumScores(d.records_by_nickname) + SumScores(d.records_by_name)
    + (IF "records" \in DOMAIN d THEN SumScores(d.records) ELSE 0)

\* C27 (participant keys): after every ingest and every weight-change
\* update, each key of each participant map is a non-empty text without
\* leading or trailing whitespace; a call whose identifiers are all blank
\* adds no participant and no points.
ParticipantKeysTrimmed ==
    [][/\ \A key \in ParticipantKeys(LoadData(data_file')) : Trimmed(key)
       /\ (/\ call = Idle
           /\ call'.op \in {"update_scores_with_rewards",
                            "update_existing_file_scores"}
           /\ \A i \in 1..Len(call'.nicknames) : Blank(call'.nicknames[i]))
          => /\ ParticipantKeys(LoadData(data_file'))
                    = ParticipantKeys(LoadData(data_file))
             /\ LedgerTotal(LoadData(data_file'))
                    = LedgerTotal(LoadData(data_file))]_vars

\* an ingest named a participant with leading whitespace and a blank
\* identifier, and the ledger holds the trimmed participant alone
BlankSkippedTrimmedKept ==
    /\ Ran("update_scores_with_rewards")
    /\ call.nicknames = <<<<" ", "a">>, <<" ">>>>
    /\ ParticipantKeys(LoadData(data_file)) = {<<"a">>}
    /\ LedgerTotal(LoadData(data_file)) = 1

\* the number of rows of the call that name the participant
RowsNaming(c, key) ==
    Cardinality({i \in 1..Len(c.nicknames) : Strip(c.nicknames[i]) = key})

\* C28 (append-only ingest): an ingest that returns keeps every participant
\* of every map; the history a participant had is a prefix of the history
\* it has afterwards, which is longer by one record per row of the call
\* that names it in the map the call scores into; a participant the call
\* does not name, and every participant of the other maps, is unchanged.
IngestAppendsOnly ==
    [][(Runs("update_scores_with_rewards") /\ result'.raised = "") =>
          \A key \in {"records_by_nickname", "records_by_name", "records"} :
              key \in DOMAIN LoadData(data_file) =>
                  /\ key \in DOMAIN LoadData(data_file')
                  /\ LET old == LoadData(data_file)[key]
                         new == LoadData(data_file')[key]
                     IN  \A i \in 1..Len(old) :
                             LET added ==
                                     IF key = RecordsKey(call'.group_by)
                                     THEN RowsNaming(call', old[i].key)
                                     ELSE 0
                             IN  /\ Has(new, old[i].key)
                                 /\ Len(Get(new, old[i].key).files)
                                        = Len(old[i].val.files) + added
                                 /\ SubSeq(Get(new, old[i].key).files, 1,
                                           Len(old[i].val.files))
                                        = old[i].val.files
                                 /\ added = 0 =>
                                        Get(new, old[i].key) = old[i].val
                                 /\ new[i].key = old[i].key]_vars

\* an ingest of a second file appended a record to the history of the
\* participant it named
SecondFileAppended ==
    /\ Ran("update_scores_with_rewards")
    /\ call.nicknames = <<<<"a">>>>
    /\ call.file_name = FileG
    /\ call.group_by = "nickname"
    /\ LET records == LoadData(data_file).records_by_nickname
       IN  /\ Has(records, <<"a">>)
           /\ Len(Get(records, <<"a">>).files) = 2
           /\ Get(records, <<"a">>).files[1].file_name = FileF
           /\ Get(records, <<"a">>).files[2].file_name = FileG

\* C29 (schema agreement): on a document that only the DataManager wrote,
\* update_existing_file_scores, merge_nicknames and get_all_nicknames do
\* not raise, and get_all_nicknames returns the participants the ingests
\* created, those get_leaderboard lists.
\* Fails: the three read data["records"]; the new document and the ingests
\* hold records_by_nickname and records_by_name and no "records", so each
\* raises KeyError as soon as it reaches the map.
SchemaAgreement ==
    [][(/\ call = Idle
        /\ call'.op \in {"update_existing_file_scores", "merge_nicknames",
                         "get_all_nicknames"})
       => (/\ result'.raised = ""
           /\ call'.op = "get_all_nicknames" =>
                  {result'.returned.list[i] :
                       i \in 1..Len(result'.returned.list)}
                      = {get_leaderboard(data_file, "nickname")[i].nickname :
                            i \in 1..Len(get_leaderboard(data_file,
                                                         "nickname"))})]_vars

====
